---- MODULE Spec2Model ----
(***************************************************************************)
(* Model of the LArSoft geometry/readout identifier value types            *)
(* (larcoreobj/SimpleTypesAndConstants/geo_types.h, readout_types.h).       *)
(*                                                                         *)
(* An identifier is a record with a static type tag, the validity flag     *)
(* held by the CryostatID base sub-object, and one unsigned index field    *)
(* per level of its inheritance chain.                                      *)
(***************************************************************************)
EXTENDS Integers, Sequences, FiniteSets, TLC

VARIABLES id, op, parentObj, a, b, c, res

vars == <<id, op, parentObj, a, b, c, res>>

(***************************************************************************)
(* Bounds of the model.                                                    *)
(***************************************************************************)
\* Index arguments of the constructors are drawn from 0..MaxIdx and the sentinel.
MaxIdx == 1
\* Ordering of three identifiers: ancestor indices 0..MaxAncIdx, local 0..MaxLocalIdx.
MaxAncIdx == 1
MaxLocalIdx == 2
\* Longest run of consecutive validity operations on one identifier.
MaxSeqLen == 3
\* Largest magnitude of a raw signal type value.
MaxSigRaw == 40
\* Largest magnitude of a finite y or z coordinate of an intersection.
MaxY == 5
\* Longest chain of successive next() calls.
MaxNextCalls == 3

(***************************************************************************)
(* The closed set of identifier types and their parent chain.              *)
(***************************************************************************)
IDTypes == {"CryostatID", "OpDetID", "TPCID", "PlaneID", "WireID", "TPCsetID", "ROPID"}

\* has_parent<T>: T declares a ParentID_t.
has_parent(T) == T # "CryostatID"

\* The `using ParentID_t = ...` declaration of each non-root struct.
ParentID_t(T) ==
  CASE T = "OpDetID"  -> "CryostatID"
    [] T = "TPCID"    -> "CryostatID"
    [] T = "PlaneID"  -> "TPCID"
    [] T = "WireID"   -> "PlaneID"
    [] T = "TPCsetID" -> "CryostatID"
    [] T = "ROPID"    -> "TPCsetID"

\* Variant: a parent counts for one level, whatever its own parents.
index_impl_oneStep(T, index) == IF has_parent(T) THEN index + 1 ELSE index

RECURSIVE index_impl(_, _)
index_impl(T, index) ==
  IF has_parent(T) THEN index_impl(ParentID_t(T), index + 1) ELSE index

index_for(T) == index_impl(T, 0)

\* static constexpr auto Level = details::index_for<ID>()
Level(T) == index_for(T)

\* AbsIDtype<Index, ID>: the ancestor type of ID (or ID itself) at level Index.
RECURSIVE AbsIDtype(_, _)
AbsIDtype(Index, T) ==
  IF Index = Level(T) THEN T ELSE AbsIDtype(Index, ParentID_t(T))

(***************************************************************************)
(* Index types: unsigned int everywhere but TPCsetID_t (unsigned short).   *)
(*                                                                         *)
(* A model integer is a 32-bit two's-complement word.  An unsigned int u   *)
(* is held as the word with the same bit pattern: u itself below 2^31,     *)
(* u - 2^32 from 2^31 up (so 2^32 - 1 is the word -1).  An unsigned short  *)
(* is held as its value in 0 .. 2^16 - 1.                                  *)
(***************************************************************************)
UIntBits == 32
UShortBits == 16

IndexBits(T) == IF T = "TPCsetID" THEN UShortBits ELSE UIntBits

\* Conversion of a word to an unsigned type of the given width (modulo 2^bits).
ToUnsigned(bits, v) == IF bits = UIntBits THEN v ELSE v % (2 ^ bits)

\* Variant: the maximum of the signed type of the same width.
UnsignedMax_signed(bits) == IF bits = UIntBits THEN 2147483647 ELSE (2 ^ (bits - 1)) - 1

\* std::numeric_limits<unsigned>::max() of the given width: all bits set.
UnsignedMax(bits) == IF bits = UIntBits THEN -1 ELSE (2 ^ bits) - 1

\* x < y on unsigned values held as words.
UnsignedLess(x, y) == IF (x < 0) = (y < 0) THEN x < y ELSE y < 0

\* Conversion of a constructor argument to the index type of T.
ToIndex(T, v) == ToUnsigned(IndexBits(T), v)

\* static constexpr InvalidID = std::numeric_limits<ID_t>::max()
InvalidID(T) == UnsignedMax(IndexBits(T))

getInvalidID(T) == InvalidID(T)

(***************************************************************************)
(* CryostatID                                                              *)
(***************************************************************************)
\* Variant: the default constructor leaves the flag set.
CryostatID_default_valid ==
  [type |-> "CryostatID", isValid |-> TRUE, Cryostat |-> InvalidID("CryostatID")]

CryostatID_default ==
  [type |-> "CryostatID", isValid |-> FALSE, Cryostat |-> InvalidID("CryostatID")]

\* Variant: index 0 is taken for "unset".
CryostatID_c_zeroUnset(cr) ==
  [type |-> "CryostatID", isValid |-> (cr # 0), Cryostat |-> ToIndex("CryostatID", cr)]

\* Variant: the sentinel index is taken for "invalid".
CryostatID_c_sentinelInvalid(cr) ==
  [type |-> "CryostatID", isValid |-> (ToIndex("CryostatID", cr) # InvalidID("CryostatID")),
   Cryostat |-> ToIndex("CryostatID", cr)]

CryostatID_c(cr) ==
  [type |-> "CryostatID", isValid |-> TRUE, Cryostat |-> ToIndex("CryostatID", cr)]

\* Variant: the validity argument is not used.
CryostatID_cv_ignoresFlag(cr, valid) ==
  [type |-> "CryostatID", isValid |-> TRUE, Cryostat |-> ToIndex("CryostatID", cr)]

CryostatID_cv(cr, valid) ==
  [type |-> "CryostatID", isValid |-> valid, Cryostat |-> ToIndex("CryostatID", cr)]

(***************************************************************************)
(* OpDetID                                                                 *)
(***************************************************************************)
OpDetID_default ==
  LET base == CryostatID_default
  IN  [type |-> "OpDetID", isValid |-> base.isValid, Cryostat |-> base.Cryostat,
       OpDet |-> InvalidID("OpDetID")]

OpDetID_nested(cryoid, o) ==
  [type |-> "OpDetID", isValid |-> cryoid.isValid, Cryostat |-> cryoid.Cryostat,
   OpDet |-> ToIndex("OpDetID", o)]

OpDetID_flat(cr, o) ==
  LET base == CryostatID_c(cr)
  IN  [type |-> "OpDetID", isValid |-> base.isValid, Cryostat |-> base.Cryostat,
       OpDet |-> ToIndex("OpDetID", o)]

(***************************************************************************)
(* TPCID                                                                   *)
(***************************************************************************)
TPCID_default ==
  LET base == CryostatID_default
  IN  [type |-> "TPCID", isValid |-> base.isValid, Cryostat |-> base.Cryostat,
       TPC |-> InvalidID("TPCID")]

TPCID_nested(cryoid, t) ==
  [type |-> "TPCID", isValid |-> cryoid.isValid, Cryostat |-> cryoid.Cryostat,
   TPC |-> ToIndex("TPCID", t)]

TPCID_flat(cr, t) ==
  LET base == CryostatID_c(cr)
  IN  [type |-> "TPCID", isValid |-> base.isValid, Cryostat |-> base.Cryostat,
       TPC |-> ToIndex("TPCID", t)]

(***************************************************************************)
(* PlaneID                                                                 *)
(***************************************************************************)
PlaneID_default ==
  LET base == TPCID_default
  IN  [type |-> "PlaneID", isValid |-> base.isValid, Cryostat |-> base.Cryostat,
       TPC |-> base.TPC, Plane |-> InvalidID("PlaneID")]

\* Variant: the base is default-constructed instead of copied from the argument.
PlaneID_nested_defaultBase(tpcid, p) ==
  LET base == TPCID_default
  IN  [type |-> "PlaneID", isValid |-> base.isValid, Cryostat |-> base.Cryostat,
       TPC |-> base.TPC, Plane |-> ToIndex("PlaneID", p)]

PlaneID_nested(tpcid, p) ==
  [type |-> "PlaneID", isValid |-> tpcid.isValid, Cryostat |-> tpcid.Cryostat,
   TPC |-> tpcid.TPC, Plane |-> ToIndex("PlaneID", p)]

\* Variant: cryostat and TPC arguments passed to the base in the wrong order.
PlaneID_flat_swapped(cr, t, p) ==
  LET base == TPCID_flat(t, cr)
  IN  [type |-> "PlaneID", isValid |-> base.isValid, Cryostat |-> base.Cryostat,
       TPC |-> base.TPC, Plane |-> ToIndex("PlaneID", p)]

PlaneID_flat(cr, t, p) ==
  LET base == TPCID_flat(cr, t)
  IN  [type |-> "PlaneID", isValid |-> base.isValid, Cryostat |-> base.Cryostat,
       TPC |-> base.TPC, Plane |-> ToIndex("PlaneID", p)]

(***************************************************************************)
(* WireID                                                                  *)
(***************************************************************************)
WireID_default ==
  LET base == PlaneID_default
  IN  [type |-> "WireID", isValid |-> base.isValid, Cryostat |-> base.Cryostat,
       TPC |-> base.TPC, Plane |-> base.Plane, Wire |-> InvalidID("WireID")]

\* Variant: the constructor sets the flag instead of copying the parent's.
WireID_nested_forcedValid(planeid, w) ==
  [type |-> "WireID", isValid |-> TRUE, Cryostat |-> planeid.Cryostat,
   TPC |-> planeid.TPC, Plane |-> planeid.Plane, Wire |-> ToIndex("WireID", w)]

WireID_nested(planeid, w) ==
  [type |-> "WireID", isValid |-> planeid.isValid, Cryostat |-> planeid.Cryostat,
   TPC |-> planeid.TPC, Plane |-> planeid.Plane, Wire |-> ToIndex("WireID", w)]

WireID_flat(cr, t, p, w) ==
  LET base == PlaneID_flat(cr, t, p)
  IN  [type |-> "WireID", isValid |-> base.isValid, Cryostat |-> base.Cryostat,
       TPC |-> base.TPC, Plane |-> base.Plane, Wire |-> ToIndex("WireID", w)]

(***************************************************************************)
(* readout::TPCsetID                                                       *)
(***************************************************************************)
TPCsetID_default ==
  LET base == CryostatID_default
  IN  [type |-> "TPCsetID", isValid |-> base.isValid, Cryostat |-> base.Cryostat,
       TPCset |-> InvalidID("TPCsetID")]

TPCsetID_nested(cryoid, s) ==
  [type |-> "TPCsetID", isValid |-> cryoid.isValid, Cryostat |-> cryoid.Cryostat,
   TPCset |-> ToIndex("TPCsetID", s)]

TPCsetID_flat(cr, s) ==
  LET base == CryostatID_c(cr)
  IN  [type |-> "TPCsetID", isValid |-> base.isValid, Cryostat |-> base.Cryostat,
       TPCset |-> ToIndex("TPCsetID", s)]

(***************************************************************************)
(* readout::ROPID                                                          *)
(***************************************************************************)
ROPID_default ==
  LET base == TPCsetID_default
  IN  [type |-> "ROPID", isValid |-> base.isValid, Cryostat |-> base.Cryostat,
       TPCset |-> base.TPCset, ROP |-> InvalidID("ROPID")]

ROPID_nested(tpcsetid, r) ==
  [type |-> "ROPID", isValid |-> tpcsetid.isValid, Cryostat |-> tpcsetid.Cryostat,
   TPCset |-> tpcsetid.TPCset, ROP |-> ToIndex("ROPID", r)]

ROPID_flat(cr, s, r) ==
  LET base == TPCsetID_flat(cr, s)
  IN  [type |-> "ROPID", isValid |-> base.isValid, Cryostat |-> base.Cryostat,
       TPCset |-> base.TPCset, ROP |-> ToIndex("ROPID", r)]

(***************************************************************************)
(* The three construction forms, by static type.                           *)
(***************************************************************************)
DefaultCtor(T) ==
  CASE T = "CryostatID" -> CryostatID_default
    [] T = "OpDetID"    -> OpDetID_default
    [] T = "TPCID"      -> TPCID_default
    [] T = "PlaneID"    -> PlaneID_default
    [] T = "WireID"     -> WireID_default
    [] T = "TPCsetID"   -> TPCsetID_default
    [] T = "ROPID"      -> ROPID_default

\* args is the chain <<index_0, ..., index_L>>.
FlatCtor(T, args) ==
  CASE T = "CryostatID" -> CryostatID_c(args[1])
    [] T = "OpDetID"    -> OpDetID_flat(args[1], args[2])
    [] T = "TPCID"      -> TPCID_flat(args[1], args[2])
    [] T = "PlaneID"    -> PlaneID_flat(args[1], args[2], args[3])
    [] T = "WireID"     -> WireID_flat(args[1], args[2], args[3], args[4])
    [] T = "TPCsetID"   -> TPCsetID_flat(args[1], args[2])
    [] T = "ROPID"      -> ROPID_flat(args[1], args[2], args[3])

NestedCtor(T, parent, i) ==
  CASE T = "OpDetID"    -> OpDetID_nested(parent, i)
    [] T = "TPCID"      -> TPCID_nested(parent, i)
    [] T = "PlaneID"    -> PlaneID_nested(parent, i)
    [] T = "WireID"     -> WireID_nested(parent, i)
    [] T = "TPCsetID"   -> TPCsetID_nested(parent, i)
    [] T = "ROPID"      -> ROPID_nested(parent, i)

\* The identifiers that type T's constructors build from the index values
\* args followed by a validity flag: CryostatID(c, valid) is the only
\* constructor with such a parameter, the other types have no overload.
FlatCtorWithValidity(T, args, valid) ==
  IF T = "CryostatID" THEN {CryostatID_cv(args[1], valid)} ELSE {}

(***************************************************************************)
(* Accessors.                                                              *)
(***************************************************************************)
\* explicit operator bool()
OperatorBool(x) == x.isValid

\* !x: contextual conversion to bool, negated.
OperatorNot(x) == ~OperatorBool(x)

\* void setValidity(bool valid) { isValid = valid; }
setValidity(x, valid) == [x EXCEPT !.isValid = valid]

\* void markValid() { setValidity(true); }
markValid(x) == setValidity(x, TRUE)

\* Variant: markInvalid() passes the wrong flag.
markInvalid_asValid(x) == setValidity(x, TRUE)

\* void markInvalid() { setValidity(false); }
markInvalid(x) == setValidity(x, FALSE)

deepestIndex(x) ==
  CASE x.type = "CryostatID" -> x.Cryostat
    [] x.type = "OpDetID"    -> x.OpDet
    [] x.type = "TPCID"      -> x.TPC
    [] x.type = "PlaneID"    -> x.Plane
    [] x.type = "WireID"     -> x.Wire
    [] x.type = "TPCsetID"   -> x.TPCset
    [] x.type = "ROPID"      -> x.ROP

\* parentID(): *this seen as ParentID_t (the base sub-object).
parentID(x) ==
  CASE x.type \in {"OpDetID", "TPCID", "TPCsetID"} ->
         [type |-> "CryostatID", isValid |-> x.isValid, Cryostat |-> x.Cryostat]
    [] x.type = "PlaneID" ->
         [type |-> "TPCID", isValid |-> x.isValid, Cryostat |-> x.Cryostat, TPC |-> x.TPC]
    [] x.type = "WireID" ->
         [type |-> "PlaneID", isValid |-> x.isValid, Cryostat |-> x.Cryostat,
          TPC |-> x.TPC, Plane |-> x.Plane]
    [] x.type = "ROPID" ->
         [type |-> "TPCsetID", isValid |-> x.isValid, Cryostat |-> x.Cryostat,
          TPCset |-> x.TPCset]

\* Variant: the walk up the parent chain stops one level too early.
RECURSIVE getAbsIDindex_stopEarly(_, _)
getAbsIDindex_stopEarly(Index, x) ==
  IF Index = Level(x.type) \/ Index + 1 = Level(x.type)
    THEN deepestIndex(x)
    ELSE getAbsIDindex_stopEarly(Index, parentID(x))

RECURSIVE getAbsIDindex(_, _)
getAbsIDindex(Index, x) ==
  IF Index = Level(x.type)
    THEN deepestIndex(x)
    ELSE getAbsIDindex(Index, parentID(x))

\* id.deepestIndex() = v: assignment through the mutable reference.
assignDeepestIndex(x, v) ==
  LET w == ToIndex(x.type, v)
  IN  CASE x.type = "CryostatID" -> [x EXCEPT !.Cryostat = w]
        [] x.type = "OpDetID"    -> [x EXCEPT !.OpDet = w]
        [] x.type = "TPCID"      -> [x EXCEPT !.TPC = w]
        [] x.type = "PlaneID"    -> [x EXCEPT !.Plane = w]
        [] x.type = "WireID"     -> [x EXCEPT !.Wire = w]
        [] x.type = "TPCsetID"   -> [x EXCEPT !.TPCset = w]
        [] x.type = "ROPID"      -> [x EXCEPT !.ROP = w]

\* The object x after its base sub-object, reached through the mutable
\* parentID() reference, has become base; the own index of x is untouched.
withParentID(x, base) ==
  CASE x.type = "OpDetID" ->
         [type |-> x.type, isValid |-> base.isValid, Cryostat |-> base.Cryostat,
          OpDet |-> x.OpDet]
    [] x.type = "TPCID" ->
         [type |-> x.type, isValid |-> base.isValid, Cryostat |-> base.Cryostat,
          TPC |-> x.TPC]
    [] x.type = "TPCsetID" ->
         [type |-> x.type, isValid |-> base.isValid, Cryostat |-> base.Cryostat,
          TPCset |-> x.TPCset]
    [] x.type = "PlaneID" ->
         [type |-> x.type, isValid |-> base.isValid, Cryostat |-> base.Cryostat,
          TPC |-> base.TPC, Plane |-> x.Plane]
    [] x.type = "WireID" ->
         [type |-> x.type, isValid |-> base.isValid, Cryostat |-> base.Cryostat,
          TPC |-> base.TPC, Plane |-> base.Plane, Wire |-> x.Wire]
    [] x.type = "ROPID" ->
         [type |-> x.type, isValid |-> base.isValid, Cryostat |-> base.Cryostat,
          TPCset |-> base.TPCset, ROP |-> x.ROP]

\* Variant: the reference returned is always the one of the deepest index.
assignAbsIDindex_deepestOnly(Index, x, v) == assignDeepestIndex(x, v)

\* getAbsIDindex<Index>(id) = v on a mutable id: the reference is found by the
\* same walk up the parent chain as for reading.
RECURSIVE assignAbsIDindex(_, _, _)
assignAbsIDindex(Index, x, v) ==
  IF Index = Level(x.type)
    THEN assignDeepestIndex(x, v)
    ELSE withParentID(x, assignAbsIDindex(Index, parentID(x), v))

(***************************************************************************)
(* ID::first() and ID::first(ancestor).                                    *)
(***************************************************************************)
\* static constexpr auto first(): CryostatID{0, true} at the root, ID{Parent::first(), 0} below.
RECURSIVE first(_)
first(T) ==
  IF has_parent(T) THEN NestedCtor(T, first(ParentID_t(T)), 0) ELSE CryostatID_cv(0, TRUE)

\* The first(ancestor) overloads declared: one per strict ancestor type, none
\* in OpDetID.
HasFirstOverload(T, AncestorT) ==
  /\ T # "OpDetID"
  /\ AncestorT # T
  /\ LET RECURSIVE IsAncestor(_)
         IsAncestor(U) == has_parent(U) /\ (ParentID_t(U) = AncestorT \/ IsAncestor(ParentID_t(U)))
     IN  IsAncestor(T)

\* Variant: the result is built by the flat constructor from the ancestor's
\* index values.
firstOf_fromIndices(T, ancestor) ==
  FlatCtor(T, [k \in 1 .. (Level(T) + 1) |->
                 IF k - 1 <= Level(ancestor.type)
                   THEN getAbsIDindex(k - 1, ancestor) ELSE 0])

\* static constexpr auto first(Ancestor const& id): ID{id, 0} for the parent
\* type, ID{Parent::first(id), 0} for the types above it.
RECURSIVE firstOf(_, _)
firstOf(T, ancestor) ==
  IF ParentID_t(T) = ancestor.type
    THEN NestedCtor(T, ancestor, 0)
    ELSE NestedCtor(T, firstOf(ParentID_t(T), ancestor), 0)

\* ID::getIndex<Index>()
getIndex(x, Index) == getAbsIDindex(Index, x)

(***************************************************************************)
(* ID output operators and toString().                                     *)
(***************************************************************************)
Digit(d) ==
  CASE d = 0 -> "0" [] d = 1 -> "1" [] d = 2 -> "2" [] d = 3 -> "3" [] d = 4 -> "4"
    [] d = 5 -> "5" [] d = 6 -> "6" [] d = 7 -> "7" [] d = 8 -> "8" [] d = 9 -> "9"

\* Decimal digits of n >= 0, most significant first.
RECURSIVE Decimal(_)
Decimal(n) == IF n < 10 THEN Digit(n) ELSE Decimal(n \div 10) \o Digit(n % 10)

\* out << v for an unsigned v held as a word.  A negative word w stands for
\* u = w + 2^32 = r + 2^31 with r = w + 2^31 in 0 .. 2^31 - 1, and
\* 2^31 = 10 * 214748364 + 8, which gives u \div 10 and u % 10 without leaving
\* the word range.
UnsignedDecimal(w) ==
  IF w >= 0
    THEN Decimal(w)
    ELSE LET r == (w + 2147483647) + 1
             q == r \div 10
             d == r % 10
         IN  Decimal(q + 214748364 + ((d + 8) \div 10)) \o Digit((d + 8) % 10)

\* operator<<(std::ostream&, CryostatID const&)
CryostatID_out(cid) == "C:" \o UnsignedDecimal(cid.Cryostat)

\* operator<<(std::ostream&, OpDetID const&)
OpDetID_out(oid) == CryostatID_out(parentID(oid)) \o " O:" \o UnsignedDecimal(oid.OpDet)

\* operator<<(std::ostream&, TPCID const&)
TPCID_out(tid) == CryostatID_out(parentID(tid)) \o " T:" \o UnsignedDecimal(tid.TPC)

\* operator<<(std::ostream&, PlaneID const&)
PlaneID_out(pid) == TPCID_out(parentID(pid)) \o " P:" \o UnsignedDecimal(pid.Plane)

\* Variant: the wire index is written before the parent.
WireID_out_localFirst(wid) ==
  "W:" \o UnsignedDecimal(wid.Wire) \o " " \o PlaneID_out(parentID(wid))

\* operator<<(std::ostream&, WireID const&)
WireID_out(wid) == PlaneID_out(parentID(wid)) \o " W:" \o UnsignedDecimal(wid.Wire)

\* operator<<(std::ostream&, TPCsetID const&)
TPCsetID_out(sid) == CryostatID_out(parentID(sid)) \o " S:" \o UnsignedDecimal(sid.TPCset)

\* operator<<(std::ostream&, ROPID const&)
ROPID_out(rid) == TPCsetID_out(parentID(rid)) \o " R:" \o UnsignedDecimal(rid.ROP)

\* details::writeToString(value): sstr << value with the operator of value's type.
writeToString(x) ==
  CASE x.type = "CryostatID" -> CryostatID_out(x)
    [] x.type = "OpDetID"    -> OpDetID_out(x)
    [] x.type = "TPCID"      -> TPCID_out(x)
    [] x.type = "PlaneID"    -> PlaneID_out(x)
    [] x.type = "WireID"     -> WireID_out(x)
    [] x.type = "TPCsetID"   -> TPCsetID_out(x)
    [] x.type = "ROPID"      -> ROPID_out(x)

\* Variant: an invalid identifier is written as a marker.
toString_invalidMarked(x) == IF x.isValid THEN writeToString(x) ELSE "<invalid>"

\* std::string toString() const { return details::writeToString(*this); }
toString(x) == writeToString(x)

(***************************************************************************)
(* ID comparison operators.                                                *)
(***************************************************************************)
RECURSIVE is_base_of(_, _)
is_base_of(BaseID, GeoID) ==
  \/ GeoID = BaseID
  \/ has_parent(GeoID) /\ is_base_of(BaseID, ParentID_t(GeoID))

is_base_of_strict(BaseID, GeoID) == is_base_of(BaseID, GeoID) /\ GeoID # BaseID

RECURSIVE OperatorEq(_, _), OperatorLt(_, _)

\* Variant: the validity flags take part in the comparison.
CryostatID_eq_withValidity(x, y) == x.isValid = y.isValid /\ x.Cryostat = y.Cryostat

\* operator==(CryostatID const&, CryostatID const&)
CryostatID_eq(x, y) == x.Cryostat = y.Cryostat

\* Variant: "less than or equal" written for "less than".
CryostatID_lt_orEqual(x, y) == ~UnsignedLess(y.Cryostat, x.Cryostat)

\* operator<(CryostatID const&, CryostatID const&)
CryostatID_lt(x, y) == UnsignedLess(x.Cryostat, y.Cryostat)

\* Variant: only the deepest index is compared.
GeoID_eq_localOnly(x, y) == deepestIndex(x) = deepestIndex(y)

\* template operator==(GeoID const&, GeoID const&): std::tie(parent, index) equality.
GeoID_eq(x, y) ==
  /\ OperatorEq(parentID(x), parentID(y))
  /\ deepestIndex(x) = deepestIndex(y)

\* Variant: only the parents are compared, the deepest index is left out.
GeoID_lt_parentOnly(x, y) == OperatorLt(parentID(x), parentID(y))

\* Variant: the deepest index decides first, the parent breaks ties.
GeoID_lt_localFirst(x, y) ==
  \/ UnsignedLess(deepestIndex(x), deepestIndex(y))
  \/ /\ ~UnsignedLess(deepestIndex(y), deepestIndex(x))
     /\ OperatorLt(parentID(x), parentID(y))

\* Variant: the deepest indices are compared even when the parents differ.
GeoID_lt_noTie(x, y) ==
  \/ OperatorLt(parentID(x), parentID(y))
  \/ UnsignedLess(deepestIndex(x), deepestIndex(y))

\* template operator<(GeoID const&, GeoID const&): std::tie(parent, index) ordering,
\* which std::tuple decides with operator< alone.
GeoID_lt(x, y) ==
  \/ OperatorLt(parentID(x), parentID(y))
  \/ /\ ~OperatorLt(parentID(y), parentID(x))
     /\ UnsignedLess(deepestIndex(x), deepestIndex(y))

\* Variant: an identifier is compared with one of an ancestor type on the levels
\* they share.
OperatorEq_sharedLevels(x, y) ==
  IF x.type = y.type /\ is_base_of_strict("CryostatID", x.type)
    THEN GeoID_eq(x, y)
    ELSE IF is_base_of_strict(y.type, x.type)
      THEN \A K \in 0 .. Level(y.type) : getAbsIDindex(K, x) = getAbsIDindex(K, y)
      ELSE CryostatID_eq(x, y)

\* Overload resolution of x == y: the template needs both operands of one
\* derived type; anything else binds to the CryostatID operator.
OperatorEq(x, y) ==
  IF x.type = y.type /\ is_base_of_strict("CryostatID", x.type)
    THEN GeoID_eq(x, y)
    ELSE CryostatID_eq(x, y)

OperatorLt(x, y) ==
  IF x.type = y.type /\ is_base_of_strict("CryostatID", x.type)
    THEN GeoID_lt(x, y)
    ELSE CryostatID_lt(x, y)

\* operator!=(CryostatID const&, CryostatID const&)
CryostatID_ne(x, y) == ~CryostatID_eq(x, y)

\* template operator!=(GeoID const&, GeoID const&)
GeoID_ne(x, y) == ~OperatorEq(x, y)

OperatorNe(x, y) ==
  IF x.type = y.type /\ is_base_of_strict("CryostatID", x.type)
    THEN GeoID_ne(x, y)
    ELSE CryostatID_ne(x, y)

\* Three-way comparison of two unsigned values: negative, zero or positive.
ThreeWayComparison(x, y) ==
  IF x = y THEN 0 ELSE IF UnsignedLess(x, y) THEN -1 ELSE 1

\* ID::cmp(other): the parents are compared first; the deepest indices decide
\* only when the parents compare equal.
RECURSIVE cmp(_, _)
cmp(x, y) ==
  IF has_parent(x.type)
    THEN LET cmp_res == cmp(parentID(x), parentID(y))
         IN  IF cmp_res = 0
               THEN ThreeWayComparison(deepestIndex(x), deepestIndex(y))
               ELSE cmp_res
    ELSE ThreeWayComparison(deepestIndex(x), deepestIndex(y))

(***************************************************************************)
(* Inputs.                                                                 *)
(***************************************************************************)
\* Index values given to constructors of type T: small values and the sentinel.
IdxVals(T) == (0 .. MaxIdx) \cup {InvalidID(T)}

\* The chains <<index_0, ..., index_L>> for type T over per-level value sets.
ArgTuplesOver(T, Vals(_)) ==
  LET n == Level(T) + 1
      Dom == UNION {Vals(AbsIDtype(k, T)) : k \in 0 .. Level(T)}
  IN  {args \in [1 .. n -> Dom] : \A k \in 1 .. n : args[k] \in Vals(AbsIDtype(k - 1, T))}

ArgTuples(T) == ArgTuplesOver(T, IdxVals)

\* The identifier of type T with the given flag and index chain, built from the
\* two-argument root constructor and the parent+index constructors.
RECURSIVE MakeID(_, _, _)
MakeID(T, valid, args) ==
  IF has_parent(T)
    THEN NestedCtor(T, MakeID(ParentID_t(T), valid, SubSeq(args, 1, Len(args) - 1)),
                    args[Len(args)])
    ELSE CryostatID_cv(args[1], valid)

\* Every identifier value of type T over the input index values.
AllIDs(T) == {MakeID(T, v, args) : v \in BOOLEAN, args \in ArgTuples(T)}

Unused == "unused"

\* The comparison results before the operators have been applied.
NoResult == [done |-> FALSE]

(***************************************************************************)
(* Construction of one identifier object `id`; `op` records the            *)
(* constructor that produced it and the arguments it was given.            *)
(***************************************************************************)
Init ==
  /\ \E T \in IDTypes : id = DefaultCtor(T)
  /\ op = [name |-> "default"]
  /\ parentObj = Unused /\ a = Unused /\ b = Unused /\ c = Unused /\ res = NoResult

DefaultConstruct(T) ==
  /\ id' = DefaultCtor(T)
  /\ op' = [name |-> "default"]
  /\ UNCHANGED <<parentObj, a, b, c, res>>

FlatConstruct(T, args) ==
  /\ id' = FlatCtor(T, args)
  /\ op' = [name |-> "flat", args |-> args]
  /\ UNCHANGED <<parentObj, a, b, c, res>>

FlatConstructValid(T, args, valid) ==
  /\ id' \in FlatCtorWithValidity(T, args, valid)
  /\ op' = [name |-> "flatValid", args |-> args, valid |-> valid]
  /\ UNCHANGED <<parentObj, a, b, c, res>>

NestedConstruct(T, parent, i) ==
  /\ has_parent(T)
  /\ parent.type = ParentID_t(T)
  /\ id' = NestedCtor(T, parent, i)
  /\ op' = [name |-> "nested", parent |-> parent, index |-> i]
  /\ UNCHANGED <<parentObj, a, b, c, res>>

First(T) ==
  /\ id' = first(T)
  /\ op' = [name |-> "first"]
  /\ UNCHANGED <<parentObj, a, b, c, res>>

FirstOf(T, ancestor) ==
  /\ HasFirstOverload(T, ancestor.type)
  /\ id' = firstOf(T, ancestor)
  /\ op' = [name |-> "firstOf", ancestor |-> ancestor]
  /\ UNCHANGED <<parentObj, a, b, c, res>>

Next ==
  \/ \E T \in IDTypes : DefaultConstruct(T)
  \/ \E T \in IDTypes : First(T)
  \/ \E T \in IDTypes : \E U \in IDTypes : \E ancestor \in AllIDs(U) : FirstOf(T, ancestor)
  \/ \E T \in IDTypes : \E args \in ArgTuples(T) : FlatConstruct(T, args)
  \/ \E T \in IDTypes : \E args \in ArgTuples(T) : \E valid \in BOOLEAN :
       FlatConstructValid(T, args, valid)
  \/ \E T \in IDTypes \ {"CryostatID"} :
       \E parent \in AllIDs(ParentID_t(T)) : \E i \in IdxVals(T) :
         NestedConstruct(T, parent, i)

Spec == Init /\ [][Next]_vars

(***************************************************************************)
(* Comparison of two identifiers of one type: the inputs a, b are drawn    *)
(* in the initial state, Compare applies every comparison operator.        *)
(***************************************************************************)
InitCmp ==
  /\ \E T \in IDTypes : a \in AllIDs(T) /\ b \in AllIDs(T)
  /\ res = NoResult
  /\ id = Unused /\ op = Unused /\ parentObj = Unused /\ c = Unused

Compare ==
  /\ ~res.done
  /\ res' = [done |-> TRUE,
             eq |-> OperatorEq(a, b), ne |-> OperatorNe(a, b),
             lt |-> OperatorLt(a, b), gt |-> OperatorLt(b, a),
             eqSelf |-> OperatorEq(a, a), ltSelf |-> OperatorLt(a, a),
             cmp |-> cmp(a, b), cmpRev |-> cmp(b, a)]
  /\ UNCHANGED <<id, op, parentObj, a, b, c>>

NextCmp == Compare

SpecCmp == InitCmp /\ [][NextCmp]_vars

(***************************************************************************)
(* Ordering of three identifiers of one type, built by the flat            *)
(* constructor.                                                            *)
(***************************************************************************)
TransTuples(T) ==
  LET n == Level(T) + 1
      top == IF MaxAncIdx > MaxLocalIdx THEN MaxAncIdx ELSE MaxLocalIdx
  IN  {args \in [1 .. n -> 0 .. top] :
         /\ \A k \in 1 .. (n - 1) : args[k] <= MaxAncIdx
         /\ args[n] <= MaxLocalIdx}

TransIDs(T) == {FlatCtor(T, args) : args \in TransTuples(T)}

InitTrans ==
  /\ \E T \in IDTypes : a \in TransIDs(T) /\ b \in TransIDs(T) /\ c \in TransIDs(T)
  /\ res = NoResult
  /\ id = Unused /\ op = Unused /\ parentObj = Unused

CompareThree ==
  /\ ~res.done
  /\ res' = [done |-> TRUE, ab |-> OperatorLt(a, b),
             bc |-> OperatorLt(b, c), ac |-> OperatorLt(a, c)]
  /\ UNCHANGED <<id, op, parentObj, a, b, c>>

NextTrans == CompareThree

SpecTrans == InitTrans /\ [][NextTrans]_vars

(***************************************************************************)
(* Text rendering of one identifier: the input id is drawn in the initial  *)
(* state, RenderString applies toString().                                  *)
(***************************************************************************)
\* The index values of the rendering examples of the unit tests.
TestIdxVals == {15, 27, 32}

StrIdxVals(T) == IdxVals(T) \cup TestIdxVals

StrIDs(T) == {MakeID(T, v, args) : v \in BOOLEAN, args \in ArgTuplesOver(T, StrIdxVals)}

InitStr ==
  /\ \E T \in IDTypes : id \in StrIDs(T)
  /\ res = NoResult
  /\ op = Unused /\ parentObj = Unused /\ a = Unused /\ b = Unused /\ c = Unused

RenderString ==
  /\ ~res.done
  /\ res' = [done |-> TRUE, str |-> toString(id)]
  /\ UNCHANGED <<id, op, parentObj, a, b, c>>

NextStr == RenderString

SpecStr == InitStr /\ [][NextStr]_vars

(***************************************************************************)
(* Mutation of one identifier object `id` after its construction.  `op`    *)
(* records the last operation: for a validity operation its argument, the  *)
(* length of the current run of validity operations and the object before  *)
(* the run; for an index write the depth, the value and the object before  *)
(* the write.                                                              *)
(***************************************************************************)
ValidityOps == {"setValidity", "markValid", "markInvalid"}

InValidityRun == op.name \in ValidityOps

RunBefore == IF InValidityRun THEN op.before ELSE id

RunLen == IF InValidityRun THEN op.len ELSE 0

InitMut ==
  /\ \E T \in IDTypes : id \in AllIDs(T)
  /\ op = [name |-> "constructed"]
  /\ parentObj = Unused /\ a = Unused /\ b = Unused /\ c = Unused /\ res = NoResult

SetValidity(valid) ==
  /\ RunLen < MaxSeqLen
  /\ id' = setValidity(id, valid)
  /\ op' = [name |-> "setValidity", valid |-> valid, len |-> RunLen + 1,
            before |-> RunBefore]
  /\ UNCHANGED <<parentObj, a, b, c, res>>

MarkValid ==
  /\ RunLen < MaxSeqLen
  /\ id' = markValid(id)
  /\ op' = [name |-> "markValid", valid |-> TRUE, len |-> RunLen + 1,
            before |-> RunBefore]
  /\ UNCHANGED <<parentObj, a, b, c, res>>

MarkInvalid ==
  /\ RunLen < MaxSeqLen
  /\ id' = markInvalid(id)
  /\ op' = [name |-> "markInvalid", valid |-> FALSE, len |-> RunLen + 1,
            before |-> RunBefore]
  /\ UNCHANGED <<parentObj, a, b, c, res>>

WriteIndex(K, v) ==
  /\ K \in 0 .. Level(id.type)
  /\ v \in IdxVals(AbsIDtype(K, id.type))
  /\ id' = assignAbsIDindex(K, id, v)
  /\ op' = [name |-> "write", depth |-> K, value |-> v, before |-> id]
  /\ UNCHANGED <<parentObj, a, b, c, res>>

NextMut ==
  \/ \E valid \in BOOLEAN : SetValidity(valid)
  \/ MarkValid
  \/ MarkInvalid
  \/ \E K \in 0 .. Level("WireID") :
       \E v \in UNION {IdxVals(T) : T \in IDTypes} : WriteIndex(K, v)

SpecMut == InitMut /\ [][NextMut]_vars

(***************************************************************************)
(* A parent object `parentObj` and a child `id` constructed from it, each   *)
(* mutated afterwards.  `op` records the last operation, the object it was  *)
(* applied to, whether it changed that object, and the other object before  *)
(* the operation.                                                           *)
(***************************************************************************)
\* Variant: the child's base is the parent object itself.
BaseSubobject_sharedWithParent(x, p) == p

\* The base-class subobject of x, copy-constructed from p when x was built:
\* it is storage of x, whatever p holds now.
BaseSubobject(x, p) == parentID(x)

\* Index values of the objects under construction: the first index and the
\* sentinel.
FrameIdxVals(T) == {0, InvalidID(T)}

FrameIDs(T) ==
  {MakeID(T, valid, args) : valid \in BOOLEAN, args \in ArgTuplesOver(T, FrameIdxVals)}

InitFrame ==
  /\ \E T \in IDTypes \ {"CryostatID"} :
       \E p \in FrameIDs(ParentID_t(T)) :
         \E i \in FrameIdxVals(T) :
           /\ parentObj = p
           /\ id = NestedCtor(T, p, i)
           /\ op = [name |-> "nested", target |-> "none"]
  /\ a = Unused /\ b = Unused /\ c = Unused /\ res = NoResult

\* A step that replaces the parent object by newParent.
ParentStep(name, newParent) ==
  /\ parentObj' = newParent
  /\ id' = withParentID(id, BaseSubobject(id, newParent))
  /\ op' = [name |-> name, target |-> "parent", changed |-> (newParent # parentObj),
            prevOther |-> id]
  /\ UNCHANGED <<a, b, c, res>>

\* A step that replaces the child object by newChild.
ChildStep(name, newChild) ==
  /\ id' = newChild
  /\ parentObj' = parentObj
  /\ op' = [name |-> name, target |-> "child", changed |-> (newChild # id),
            prevOther |-> parentObj]
  /\ UNCHANGED <<a, b, c, res>>

ParentSetValidity(valid) == ParentStep("setValidity", setValidity(parentObj, valid))

ParentMarkValid == ParentStep("markValid", markValid(parentObj))

ParentMarkInvalid == ParentStep("markInvalid", markInvalid(parentObj))

ParentAssignDeepest(v) ==
  /\ v \in IdxVals(parentObj.type)
  /\ ParentStep("assignDeepest", assignDeepestIndex(parentObj, v))

ChildSetValidity(valid) == ChildStep("setValidity", setValidity(id, valid))

ChildMarkValid == ChildStep("markValid", markValid(id))

ChildMarkInvalid == ChildStep("markInvalid", markInvalid(id))

ChildWriteIndex(K, v) ==
  /\ K \in 0 .. Level(id.type)
  /\ v \in IdxVals(AbsIDtype(K, id.type))
  /\ ChildStep("write", assignAbsIDindex(K, id, v))

NextFrame ==
  \/ \E valid \in BOOLEAN : ParentSetValidity(valid)
  \/ ParentMarkValid
  \/ ParentMarkInvalid
  \/ \E v \in UNION {IdxVals(T) : T \in IDTypes} : ParentAssignDeepest(v)
  \/ \E valid \in BOOLEAN : ChildSetValidity(valid)
  \/ ChildMarkValid
  \/ ChildMarkInvalid
  \/ \E K \in 0 .. Level("WireID") :
       \E v \in UNION {IdxVals(T) : T \in IDTypes} : ChildWriteIndex(K, v)

SpecFrame == InitFrame /\ [][NextFrame]_vars

(***************************************************************************)
(* geo::SignalTypeName: the raw value of the SigType_t argument is drawn   *)
(* in the initial state (a), CallSignalTypeName records the outcome: the   *)
(* string returned or the exception thrown.                                *)
(***************************************************************************)
\* enum _plane_sigtype
kInduction == 0
kCollection == 1
kMysteryType == 2

\* std::to_string(int)
to_string(n) == IF n < 0 THEN "-" \o Decimal(0 - n) ELSE Decimal(n)

\* Variant: the names of the induction and collection types are exchanged.
SignalTypeName_swapped(sigType) ==
  CASE sigType = kInduction   -> [kind |-> "return", value |-> "collection"]
    [] sigType = kCollection  -> [kind |-> "return", value |-> "induction"]
    [] sigType = kMysteryType -> [kind |-> "return", value |-> "unknown"]
    [] OTHER -> [kind |-> "throw", exception |-> "std::logic_error",
                 what |-> "geo::SignalTypeName(): unexpected signal type #"
                            \o to_string(sigType)]

\* Variant: a value that is no member is named as the mystery type.
SignalTypeName_defaultUnknown(sigType) ==
  CASE sigType = kInduction   -> [kind |-> "return", value |-> "induction"]
    [] sigType = kCollection  -> [kind |-> "return", value |-> "collection"]
    [] OTHER -> [kind |-> "return", value |-> "unknown"]

SignalTypeName(sigType) ==
  CASE sigType = kInduction   -> [kind |-> "return", value |-> "induction"]
    [] sigType = kCollection  -> [kind |-> "return", value |-> "collection"]
    [] sigType = kMysteryType -> [kind |-> "return", value |-> "unknown"]
    [] OTHER -> [kind |-> "throw", exception |-> "std::logic_error",
                 what |-> "geo::SignalTypeName(): unexpected signal type #"
                            \o to_string(sigType)]

SigRawVals == (0 - MaxSigRaw) .. MaxSigRaw

InitSig ==
  /\ a \in SigRawVals
  /\ res = NoResult
  /\ id = Unused /\ op = Unused /\ parentObj = Unused /\ b = Unused /\ c = Unused

CallSignalTypeName ==
  /\ ~res.done
  /\ res' = [done |-> TRUE, outcome |-> SignalTypeName(a)]
  /\ UNCHANGED <<id, op, parentObj, a, b, c>>

NextSig == CallSignalTypeName

SpecSig == InitSig /\ [][NextSig]_vars

(***************************************************************************)
(* geo::WireIDIntersection.  A double is a record: a finite value (an      *)
(* integer here), an infinity with its sign, or a NaN.  Two records a, b   *)
(* are drawn in the initial state, CompareIntersections applies operator<. *)
(***************************************************************************)
Finite(n) == [cls |-> "finite", v |-> n]

\* std::numeric_limits<double>::infinity()
infinity == [cls |-> "inf", v |-> 1]

NegInfinity == [cls |-> "inf", v |-> -1]

NaN == [cls |-> "nan", v |-> 0]

\* std::abs(double)
fabs(x) == IF x.v < 0 THEN [x EXCEPT !.v = 0 - x.v] ELSE x

\* x > y on doubles: false when either is a NaN.
DoubleGreater(x, y) ==
  CASE x.cls = "nan" \/ y.cls = "nan" -> FALSE
    [] x.cls = "inf" /\ y.cls = "inf" -> x.v > y.v
    [] x.cls = "inf" -> x.v > 0
    [] y.cls = "inf" -> y.v < 0
    [] OTHER -> x.v > y.v

\* Variant: the signed y values are compared.
WireIDIntersection_lt_signed(x, y) == DoubleGreater(x.y, y.y)

\* Variant: increasing absolute y.
WireIDIntersection_lt_increasing(x, y) == DoubleGreater(fabs(y.y), fabs(x.y))

\* WireIDIntersection::operator<
WireIDIntersection_lt(x, y) == DoubleGreater(fabs(x.y), fabs(y.y))

\* Variant: the coordinates of the sentinel are not-a-number.
WireIDIntersection_invalid_nan == [y |-> NaN, z |-> NaN, TPC |-> ToUnsigned(UIntBits, -1)]

\* WireIDIntersection::invalid()
WireIDIntersection_invalid ==
  [y |-> infinity, z |-> infinity, TPC |-> ToUnsigned(UIntBits, -1)]

YVals == {Finite(n) : n \in (0 - MaxY) .. MaxY} \cup {infinity, NegInfinity, NaN}

ZVals == {Finite(0), infinity}

Intersections ==
  {[y |-> y, z |-> z, TPC |-> t] : y \in YVals, z \in ZVals, t \in IdxVals("TPCID")}
    \cup {WireIDIntersection_invalid}

InitIntersect ==
  /\ a \in Intersections
  /\ b \in Intersections
  /\ res = NoResult
  /\ id = Unused /\ op = Unused /\ parentObj = Unused /\ c = Unused

CompareIntersections ==
  /\ ~res.done
  /\ res' = [done |-> TRUE, lt |-> WireIDIntersection_lt(a, b),
             gt |-> WireIDIntersection_lt(b, a),
             ltSelf |-> WireIDIntersection_lt(a, a)]
  /\ UNCHANGED <<id, op, parentObj, a, b, c>>

NextIntersect == CompareIntersections

SpecIntersect == InitIntersect /\ [][NextIntersect]_vars

(***************************************************************************)
(* geo::DriftAxis: two values a, b are drawn in the initial state,         *)
(* CompareAxes applies ==, != and the stream output.                       *)
(***************************************************************************)
\* enum class Coordinate
Coordinate == {"X", "Y", "Z"}

\* enum class DriftSign
DriftSign == {"Unknown", "Positive", "Negative"}

\* operator<<(std::ostream&, Coordinate)
Coordinate_out(coordinate) ==
  CASE coordinate = "X" -> "X"
    [] coordinate = "Y" -> "Y"
    [] coordinate = "Z" -> "Z"

\* operator<<(std::ostream&, DriftSign)
DriftSign_out(sign) ==
  CASE sign = "Positive" -> "+"
    [] sign = "Negative" -> "-"
    [] sign = "Unknown"  -> "?"

\* Variant: the coordinate is written before the sign.
DriftAxis_out_coordinateFirst(driftAxis) ==
  Coordinate_out(driftAxis.coordinate) \o DriftSign_out(driftAxis.sign)

\* operator<<(std::ostream&, DriftAxis)
DriftAxis_out(driftAxis) ==
  DriftSign_out(driftAxis.sign) \o Coordinate_out(driftAxis.coordinate)

\* operator==(DriftAxis, DriftAxis)
DriftAxis_eq(x, y) == x.coordinate = y.coordinate /\ x.sign = y.sign

\* operator!=(DriftAxis, DriftAxis)
DriftAxis_ne(x, y) == ~DriftAxis_eq(x, y)

DriftAxes == [coordinate : Coordinate, sign : DriftSign]

InitAxis ==
  /\ a \in DriftAxes
  /\ b \in DriftAxes
  /\ res = NoResult
  /\ id = Unused /\ op = Unused /\ parentObj = Unused /\ c = Unused

CompareAxes ==
  /\ ~res.done
  /\ res' = [done |-> TRUE, eq |-> DriftAxis_eq(a, b), ne |-> DriftAxis_ne(a, b),
             str |-> DriftAxis_out(a)]
  /\ UNCHANGED <<id, op, parentObj, a, b, c>>

NextAxis == CompareAxes

SpecAxis == InitAxis /\ [][NextAxis]_vars

(***************************************************************************)
(* TPCID::next().  The receiver `a` of the first call is drawn in the      *)
(* initial state and kept in `c`; CallNext calls next() on the receiver,   *)
(* or on the result of the previous call, and stores the result in `id`.   *)
(***************************************************************************)
\* w + 1 on unsigned int (modulo 2^32), on the word holding the value.
UIntPlusOne(w) == IF w = 2147483647 THEN (0 - 2147483647) - 1 ELSE w + 1

\* Variant: the result is built on the receiver's cryostat ID object.
TPCID_next_keepsValidity(t) == TPCID_nested(parentID(t), UIntPlusOne(t.TPC))

\* TPCID next() const { return {Cryostat, TPC + 1}; }
TPCID_next(t) == TPCID_flat(t.Cryostat, UIntPlusOne(t.TPC))

\* TPC indices of the receivers: the first ones, the sentinel, the value below
\* it and the largest value with the top bit clear.
NextTPCVals == IdxVals("TPCID") \cup {-2, 2147483647}

NextReceivers ==
  {TPCID_nested(CryostatID_cv(cr, valid), t) :
     cr \in IdxVals("CryostatID"), valid \in BOOLEAN, t \in NextTPCVals}

InitNext ==
  /\ a \in NextReceivers
  /\ c = a
  /\ op = [name |-> "none", n |-> 0]
  /\ id = Unused /\ parentObj = Unused /\ b = Unused /\ res = NoResult

CallNext ==
  /\ op.n < MaxNextCalls
  /\ LET t == IF op.name = "next" THEN id ELSE a
     IN  /\ id' = TPCID_next(t)
         /\ a' = t
  /\ op' = [name |-> "next", n |-> op.n + 1]
  /\ UNCHANGED <<parentObj, b, c, res>>

NextNext == CallNext

SpecNext == InitNext /\ [][NextNext]_vars

(***************************************************************************)
(* Comparison of two identifiers of different types: the inputs a, b are   *)
(* drawn in the initial state, CompareMixed applies the operators that     *)
(* overload resolution selects for the two static types.                   *)
(***************************************************************************)
MixedIdxVals(T) == 0 .. MaxIdx

MixedIDs(T) ==
  {MakeID(T, valid, args) : valid \in BOOLEAN, args \in ArgTuplesOver(T, MixedIdxVals)}

InitMixed ==
  /\ \E T \in IDTypes : \E U \in IDTypes \ {T} : a \in MixedIDs(T) /\ b \in MixedIDs(U)
  /\ res = NoResult
  /\ id = Unused /\ op = Unused /\ parentObj = Unused /\ c = Unused

CompareMixed ==
  /\ ~res.done
  /\ res' = [done |-> TRUE, eq |-> OperatorEq(a, b), ne |-> OperatorNe(a, b),
             lt |-> OperatorLt(a, b), gt |-> OperatorLt(b, a)]
  /\ UNCHANGED <<id, op, parentObj, a, b, c>>

NextMixed == CompareMixed

SpecMixed == InitMixed /\ [][NextMixed]_vars

(***************************************************************************)
(* Properties of construction (specification Spec).                        *)
(***************************************************************************)
Levels(x) == 0 .. Level(x.type)

\* C1: a default-constructed identifier of any type is invalid (isValid false,
\* bool conversion false, operator! true) and every index it holds, its own
\* deepest index and every ancestor's, is the invalid sentinel of that level.
C1_DefaultIsInvalidSentinel ==
  op.name = "default" =>
    /\ id.isValid = FALSE
    /\ OperatorBool(id) = FALSE
    /\ OperatorNot(id) = TRUE
    /\ deepestIndex(id) = getInvalidID(id.type)
    /\ \A K \in Levels(id) : getIndex(id, K) = InvalidID(AbsIDtype(K, id.type))

C1_Witness ==
  /\ op.name = "default"
  /\ id.type = "ROPID"
  /\ ~id.isValid
  /\ id.TPCset = (2 ^ UShortBits) - 1
  /\ id.ROP = -1

\* C2: the flat constructor ID(index_0, ..., index_L) yields a valid identifier
\* for every choice of index values, index 0 at any or all levels included.
C2_FlatIsValid ==
  op.name = "flat" => id.isValid = TRUE /\ OperatorBool(id) = TRUE

C2_Witness ==
  /\ op.name = "flat"
  /\ id.type = "WireID"
  /\ op.args = <<0, 0, 0, 0>>
  /\ id.isValid

\* C3: for an identifier built by the flat constructor from (i_0, ..., i_L),
\* getIndex<K>() returns i_K for every K in 0 .. L.
C3_GetIndexReturnsArgument ==
  op.name = "flat" => \A K \in Levels(id) : getIndex(id, K) = op.args[K + 1]

C3_Witness ==
  /\ op.name = "flat"
  /\ id.type = "WireID"
  /\ op.args = <<1, 0, -1, 1>>
  /\ getIndex(id, 0) = 1 /\ getIndex(id, 1) = 0
  /\ getIndex(id, 2) = -1 /\ getIndex(id, 3) = 1

\* C4 as stated: ID(parent, localIndex) is valid whatever the validity of parent.
C4_NestedAlwaysValid ==
  op.name = "nested" => id.isValid = TRUE

\* C4 (amended): ID(parent, localIndex) has the validity of the parent value
\* supplied: valid for a valid parent, invalid for an invalid parent.
C4_NestedCopiesValidity ==
  op.name = "nested" =>
    /\ id.isValid = op.parent.isValid
    /\ OperatorBool(id) = OperatorBool(op.parent)

C4_Witness ==
  /\ op.name = "nested"
  /\ id.type = "WireID"
  /\ op.parent = PlaneID_default
  /\ ~id.isValid

\* C5: x = ID(p, i) embeds an exact copy of p (same validity flag, same ancestor
\* indices) and has deepest index i, so ID(x.parentID(), x.deepestIndex()) is
\* field-for-field x.
C5_NestedEmbedsParent ==
  op.name = "nested" =>
    /\ parentID(id) = op.parent
    /\ deepestIndex(id) = op.index
    /\ NestedCtor(id.type, parentID(id), deepestIndex(id)) = id

C5_Witness ==
  /\ op.name = "nested"
  /\ id.type = "WireID"
  /\ ~op.parent.isValid
  /\ op.parent.Cryostat = 0 /\ op.parent.TPC = 1 /\ op.parent.Plane = 0
  /\ parentID(id) = op.parent
  /\ deepestIndex(id) = 1

\* C6: the parent+local constructor applied to a flat-constructed parent agrees
\* field for field with the flat constructor:
\* ID(Parent(i_0, ..., i_{L-1}), i_L) = ID(i_0, ..., i_L).
C6_NestedOfFlatIsFlat ==
  op.name = "nested" =>
    \A pargs \in ArgTuples(op.parent.type) :
      op.parent = FlatCtor(op.parent.type, pargs) =>
        id = FlatCtor(id.type, Append(pargs, op.index))

C6_Witness ==
  /\ op.name = "nested"
  /\ id.type = "PlaneID"
  /\ op.parent = TPCID_flat(0, 1)
  /\ op.index = 1
  /\ id = PlaneID_flat(0, 1, 1)

(***************************************************************************)
(* Properties of comparison (specifications SpecCmp and SpecTrans).        *)
(***************************************************************************)
\* The chain <<index_0, ..., index_L>> read back through getIndex.
IndexTuple(x) == [k \in 1 .. (Level(x.type) + 1) |-> getIndex(x, k - 1)]

\* Dictionary order on two chains of the same length.
LexLess(s, t) ==
  \E k \in 1 .. Len(s) :
    /\ \A j \in 1 .. (k - 1) : s[j] = t[j]
    /\ UnsignedLess(s[k], t[k])

\* C7: a == b holds exactly when the index at every level is equal in a and b,
\* and a != b is the negation of a == b.
C7_EqualIffAllIndicesEqual ==
  res.done =>
    /\ res.eq <=> \A K \in Levels(a) : getIndex(a, K) = getIndex(b, K)
    /\ res.ne <=> ~res.eq

C7_Witness ==
  /\ res.done
  /\ a.type = "WireID"
  /\ a.Cryostat # b.Cryostat
  /\ a.TPC = b.TPC /\ a.Plane = b.Plane /\ a.Wire = b.Wire
  /\ ~res.eq /\ res.ne

\* C8: a < b holds exactly when the index chain of a is lexicographically
\* smaller than that of b: the first level at which they differ decides.
C8_LessIffLexicographic ==
  res.done => (res.lt <=> LexLess(IndexTuple(a), IndexTuple(b)))

C8_Witness ==
  /\ res.done
  /\ a.type = "PlaneID"
  /\ a.Cryostat = 0 /\ b.Cryostat = 1
  /\ UnsignedLess(b.TPC, a.TPC) /\ UnsignedLess(b.Plane, a.Plane)
  /\ res.lt /\ ~res.gt

\* C9: exactly one of a < b, a == b, b < a holds; a == a and !(a < a); a < b
\* implies a != b and !(b < a).
C9_Trichotomy ==
  res.done =>
    /\ Cardinality({r \in {"lt", "eq", "gt"} : res[r]}) = 1
    /\ res.eqSelf /\ ~res.ltSelf
    /\ res.lt => (res.ne /\ ~res.gt)

C9_Witness ==
  /\ res.done
  /\ a.type = "ROPID"
  /\ a.isValid /\ ~b.isValid
  /\ res.gt /\ ~res.lt /\ ~res.eq /\ res.eqSelf

\* C10: a < b and b < c implies a < c, when the three differ at an ancestor
\* level and when they differ only in the local index.
C10_LessIsTransitive ==
  res.done => ((res.ab /\ res.bc) => res.ac)

C10_Witness ==
  /\ res.done
  /\ a.type = "TPCID"
  /\ a.Cryostat < b.Cryostat /\ a.TPC = b.TPC
  /\ b.Cryostat = c.Cryostat /\ b.TPC < c.TPC
  /\ res.ab /\ res.bc /\ res.ac

\* C11: the results of ==, != and < do not depend on the validity flag of either
\* operand: with each of the four combinations of flags set on copies of a and
\* b, every comparison returns what it returns on a and b.
C11_ComparisonIgnoresValidity ==
  res.done =>
    \A va \in BOOLEAN, vb \in BOOLEAN :
      LET x == setValidity(a, va)
          y == setValidity(b, vb)
      IN  /\ OperatorEq(x, y) = res.eq
          /\ OperatorNe(x, y) = res.ne
          /\ OperatorLt(x, y) = res.lt
          /\ OperatorLt(y, x) = res.gt

C11_Witness ==
  /\ res.done
  /\ a = CryostatID_cv(1, TRUE)
  /\ b = CryostatID_cv(1, FALSE)
  /\ res.eq /\ ~res.ne /\ ~res.lt /\ ~res.gt

\* The sign of a three-way comparison result.
Sign(n) == IF n < 0 THEN -1 ELSE IF n > 0 THEN 1 ELSE 0

Tag(T) ==
  CASE T = "CryostatID" -> "C" [] T = "OpDetID" -> "O" [] T = "TPCID" -> "T"
    [] T = "PlaneID" -> "P" [] T = "WireID" -> "W" [] T = "TPCsetID" -> "S"
    [] T = "ROPID" -> "R"

\* The levels 0 .. K of x, outermost first: "C:<i_0>" then " <tag>:<i_k>" each.
RECURSIVE Rendering(_, _)
Rendering(x, K) ==
  IF K = 0
    THEN "C:" \o UnsignedDecimal(getIndex(x, 0))
    ELSE Rendering(x, K - 1) \o " " \o Tag(AbsIDtype(K, x.type)) \o ":"
           \o UnsignedDecimal(getIndex(x, K))

\* C13: toString() renders the index chain outermost ancestor first, "C:<c>"
\* followed for each deeper level by a space, the level's tag, a colon and the
\* decimal index; WireID(1,15,32,27) gives "C:1 T:15 P:32 W:27" and
\* ROPID(1,15,32) gives "C:1 S:15 R:32".
C13_ToStringFormat ==
  res.done =>
    /\ res.str = Rendering(id, Level(id.type))
    /\ id = WireID_flat(1, 15, 32, 27) => res.str = "C:1 T:15 P:32 W:27"
    /\ id = ROPID_flat(1, 15, 32) => res.str = "C:1 S:15 R:32"
    /\ id = OpDetID_flat(0, 27) => res.str = "C:0 O:27"

C13_Witness ==
  /\ res.done
  /\ id = WireID_flat(1, 15, 32, 27)
  /\ res.str = "C:1 T:15 P:32 W:27"

IndexFields(x) == DOMAIN x \ {"type", "isValid"}

\* C19: the level of a type is the length of its parent chain: 0 for
\* CryostatID, the only type with no parent, 1 for OpDetID, TPCID and TPCsetID,
\* 2 for PlaneID and ROPID, 3 for WireID; the level of a non-root type is its
\* ParentID_t's level plus one.
C19_LevelIsParentChainLength ==
  /\ Level(id.type) =
       CASE id.type = "CryostatID" -> 0
         [] id.type \in {"OpDetID", "TPCID", "TPCsetID"} -> 1
         [] id.type \in {"PlaneID", "ROPID"} -> 2
         [] id.type = "WireID" -> 3
  /\ (Level(id.type) = 0) <=> ~has_parent(id.type)
  /\ ~has_parent(id.type) <=> (id.type = "CryostatID")
  /\ has_parent(id.type) =>
       /\ Level(id.type) = Level(ParentID_t(id.type)) + 1
       /\ Level(id.type) = Level(parentID(id).type) + 1
  /\ Cardinality(IndexFields(id)) = Level(id.type) + 1

C19_Witness ==
  /\ op.name = "nested"
  /\ id.type = "WireID"
  /\ Level(id.type) = 3
  /\ op.parent.type = "PlaneID"
  /\ Level(op.parent.type) = 2
  /\ id.Wire = 0

\* C20: the invalid sentinel of each level is the maximum of that level's
\* unsigned index type: 4294967295 for the 32-bit indices, 65535 for the 16-bit
\* TPC set index; it is one below the wrap to zero and no index exceeds it.
C20_SentinelIsTypeMaximum ==
  \A K \in Levels(id) :
    LET T == AbsIDtype(K, id.type)
        s == getInvalidID(T)
    IN  /\ s = InvalidID(T)
        /\ (IndexBits(T) = 16) <=> (T = "TPCsetID")
        /\ IndexBits(T) = 16 =>
             /\ s = 65535
             /\ UnsignedDecimal(s) = "65535"
             /\ \A v \in {0, 1, 32767, 32768, 65534} : UnsignedLess(v, s)
             /\ \A v \in {-1, 65535, 65536, 70000, 2147483647} :
                  ~UnsignedLess(s, ToIndex(T, v))
        /\ IndexBits(T) = 32 =>
             /\ UnsignedDecimal(s) = "4294967295"
             /\ \A v \in {0, 1, 65535, 2147483647, -2147483647 - 1, -2} :
                  UnsignedLess(v, s)
        /\ ToIndex(T, s + 1) = 0
        /\ ~UnsignedLess(s, getIndex(id, K))

C20_Witness ==
  /\ op.name = "flat"
  /\ id.type = "ROPID"
  /\ id.Cryostat = 1
  /\ id.TPCset = 65535
  /\ id.TPCset = getInvalidID("TPCsetID")
  /\ id.ROP = getInvalidID("ROPID")
  /\ UnsignedDecimal(id.ROP) = "4294967295"

(***************************************************************************)
(* Properties of mutation (specification SpecMut).                         *)
(***************************************************************************)
\* C14: after any sequence of setValidity(v), markValid(), markInvalid(), the
\* validity reported by isValid, by the bool conversion and by the negation of
\* operator! is the argument of the last operation (true for markValid, false
\* for markInvalid) and every index is as it was before the sequence.
C14_ValidityIsLastArgument ==
  InValidityRun =>
    /\ id.isValid = op.valid
    /\ OperatorBool(id) = op.valid
    /\ (~OperatorNot(id)) = op.valid
    /\ op.name = "markValid" => id.isValid = TRUE
    /\ op.name = "markInvalid" => id.isValid = FALSE
    /\ \A K \in Levels(id) : getIndex(id, K) = getIndex(op.before, K)

C14_Witness ==
  /\ op.name = "markInvalid"
  /\ op.len = MaxSeqLen
  /\ id.type = "WireID"
  /\ op.before.isValid
  /\ ~id.isValid
  /\ id.Cryostat = 0 /\ id.Wire = 1

\* C16: writing the index at depth K through the mutable accessor makes
\* getIndex<K>() return the written value and leaves the indices at every other
\* depth and the validity flag unchanged.
C16_WriteIndexFrame ==
  op.name = "write" =>
    /\ getIndex(id, op.depth) = op.value
    /\ \A K \in Levels(id) \ {op.depth} : getIndex(id, K) = getIndex(op.before, K)
    /\ id.isValid = op.before.isValid
    /\ id.type = op.before.type
    /\ assignAbsIDindex(2, assignAbsIDindex(1, assignAbsIDindex(0,
          ROPID_flat(1, 15, 32), 2), 19), 76) = ROPID_flat(2, 19, 76)

C16_Witness ==
  /\ op.name = "write"
  /\ id.type = "ROPID"
  /\ op.depth = 1
  /\ op.before.TPCset = 0 /\ op.value = 1
  /\ id.TPCset = 1 /\ id.Cryostat = 1 /\ id.ROP = 0

\* The chain of type T with the invalid sentinel at every level.
SentinelChain(T) == [k \in 1 .. (Level(T) + 1) |-> InvalidID(AbsIDtype(k - 1, T))]

\* C17: the validity flag and the index sentinel are independent: the flat
\* constructor given the sentinel at every level yields a valid identifier; a
\* default-constructed identifier marked valid keeps the sentinel at every level
\* and then is that identifier, which compares == to the default-constructed
\* one; writing an index, the sentinel included, never changes the flag.
C17_ValidityIndependentOfSentinel ==
  /\ FlatCtor(id.type, SentinelChain(id.type)).isValid
  /\ (op.name = "markValid" /\ op.before = DefaultCtor(id.type)) =>
       /\ id.isValid
       /\ \A K \in Levels(id) : getIndex(id, K) = InvalidID(AbsIDtype(K, id.type))
       /\ id = FlatCtor(id.type, SentinelChain(id.type))
       /\ OperatorEq(id, DefaultCtor(id.type))
       /\ ~OperatorNe(id, DefaultCtor(id.type))
  /\ op.name = "write" => id.isValid = op.before.isValid

C17_Witness ==
  /\ op.name = "markValid"
  /\ id.type = "ROPID"
  /\ op.before = ROPID_default
  /\ id.isValid
  /\ id = ROPID_flat(-1, (2 ^ UShortBits) - 1, -1)

(***************************************************************************)
(* Properties of a parent and its child (specification SpecFrame).         *)
(***************************************************************************)
\* C15: a child constructed from a parent object holds its own copy of the
\* parent's fields: a mutation of the parent (its deepest index or its
\* validity) leaves every index and the validity of the child unchanged, and a
\* mutation of the child leaves the parent unchanged.
C15_ChildHoldsOwnCopy ==
  /\ op.target = "parent" =>
       /\ id.isValid = op.prevOther.isValid
       /\ \A K \in Levels(id) : getIndex(id, K) = getIndex(op.prevOther, K)
       /\ id = op.prevOther
  /\ op.target = "child" =>
       /\ parentObj.isValid = op.prevOther.isValid
       /\ \A K \in Levels(parentObj) :
            getIndex(parentObj, K) = getIndex(op.prevOther, K)
       /\ parentObj = op.prevOther

C15_Witness ==
  /\ op.target = "parent"
  /\ op.name = "assignDeepest"
  /\ id.type = "PlaneID"
  /\ op.changed
  /\ id.isValid /\ id.TPC = 0
  /\ parentObj.TPC = 1

(***************************************************************************)
(* Properties of SignalTypeName (specification SpecSig).                   *)
(***************************************************************************)
SigTypeMembers == {kInduction, kCollection, kMysteryType}

\* C21: SignalTypeName returns "induction" for kInduction, "collection" for
\* kCollection and "unknown" for kMysteryType, and throws for none of them.
C21_SignalTypeNames ==
  (res.done /\ a \in SigTypeMembers) =>
    /\ res.outcome.kind = "return"
    /\ a = 0 => res.outcome.value = "induction"
    /\ a = 1 => res.outcome.value = "collection"
    /\ a = 2 => res.outcome.value = "unknown"
    /\ kInduction = 0 /\ kCollection = 1 /\ kMysteryType = 2

C21_Witness ==
  /\ res.done
  /\ a = kCollection
  /\ res.outcome = [kind |-> "return", value |-> "collection"]

\* C22: for every raw value that is none of the three members SignalTypeName
\* throws std::logic_error with the message
\* "geo::SignalTypeName(): unexpected signal type #<value>"; it returns no
\* name, and no two such values share a message.
C22_UnknownSignalTypeThrows ==
  (res.done /\ a \notin SigTypeMembers) =>
    /\ res.outcome.kind = "throw"
    /\ res.outcome.exception = "std::logic_error"
    /\ res.outcome.what =
         "geo::SignalTypeName(): unexpected signal type #" \o to_string(a)
    /\ a = 3 => res.outcome.what = "geo::SignalTypeName(): unexpected signal type #3"
    /\ a = 17 => res.outcome.what = "geo::SignalTypeName(): unexpected signal type #17"
    /\ a = -1 => res.outcome.what = "geo::SignalTypeName(): unexpected signal type #-1"
    /\ \A other \in SigRawVals \ {a} : SignalTypeName(other) # res.outcome

C22_Witness ==
  /\ res.done
  /\ a = 3
  /\ res.outcome.kind = "throw"
  /\ res.outcome.what = "geo::SignalTypeName(): unexpected signal type #3"

(***************************************************************************)
(* Properties of WireIDIntersection (specification SpecIntersect).         *)
(***************************************************************************)
\* |x| > |y| stated on the values: a NaN is greater than nothing and nothing
\* is greater than it, an infinity of either sign exceeds every finite value.
MagnitudeGreater(x, y) ==
  /\ x.cls # "nan" /\ y.cls # "nan"
  /\ \/ x.cls = "inf" /\ y.cls = "finite"
     \/ x.cls = "finite" /\ y.cls = "finite" /\ x.v * x.v > y.v * y.v

\* The double of opposite sign.
Negated(x) == [x EXCEPT !.v = 0 - x.v]

\* C23: a < b holds exactly when |a.y| > |b.y|; z, TPC and the sign of y have
\* no influence, records with y of equal magnitude are each not less than the
\* other, and a < a is false.
C23_LessIsDecreasingAbsY ==
  res.done =>
    /\ res.lt = MagnitudeGreater(a.y, b.y)
    /\ res.gt = MagnitudeGreater(b.y, a.y)
    /\ \A x \in Intersections :
         x.y \in {a.y, Negated(a.y)} =>
           /\ WireIDIntersection_lt(x, b) = res.lt
           /\ WireIDIntersection_lt(b, x) = res.gt
    /\ b.y \in {a.y, Negated(a.y)} => ~res.lt /\ ~res.gt
    /\ ~res.ltSelf

C23_Witness ==
  /\ res.done
  /\ a.y = Finite(-5) /\ b.y = Finite(5)
  /\ a.z # b.z /\ a.TPC # b.TPC
  /\ ~res.lt /\ ~res.gt

\* C24 as stated: the record with y = 1.0 is less than the record with y = 5.0.
C24_SmallerAbsYSortsFirst ==
  (res.done /\ a.y = Finite(1) /\ b.y = Finite(5)) => res.lt = TRUE

\* C24 (amended): the record with y = 5.0 is less than the record with
\* y = 1.0, and the record with y = 1.0 is not less than the one with y = 5.0:
\* the record farther from y = 0 sorts first.
C24_LargerAbsYSortsFirst ==
  (res.done /\ a.y = Finite(1) /\ b.y = Finite(5)) =>
    /\ res.lt = FALSE
    /\ res.gt = TRUE
    /\ WireIDIntersection_lt(b, a)

C24_Witness ==
  /\ res.done
  /\ a.y = Finite(1) /\ b.y = Finite(5)
  /\ a.z = Finite(0) /\ b.z = Finite(0)
  /\ res.gt /\ ~res.lt

\* C30: invalid() is the record with y = +infinity, z = +infinity and
\* TPC = 2^32 - 1; it is less than every record with finite y, no record is
\* less than it, and it is not less than itself.
C30_InvalidIntersectionSentinel ==
  /\ WireIDIntersection_invalid.y = infinity
  /\ WireIDIntersection_invalid.z = infinity
  /\ UnsignedDecimal(WireIDIntersection_invalid.TPC) = "4294967295"
  /\ WireIDIntersection_invalid.TPC = InvalidID("TPCID")
  /\ (res.done /\ a = WireIDIntersection_invalid) =>
       /\ b.y.cls = "finite" => res.lt
       /\ ~res.gt
       /\ ~res.ltSelf
  /\ (res.done /\ b = WireIDIntersection_invalid) => ~res.lt

C30_Witness ==
  /\ res.done
  /\ a = WireIDIntersection_invalid
  /\ b.y = Finite(MaxY)
  /\ res.lt /\ ~res.gt

(***************************************************************************)
(* Properties of DriftAxis (specification SpecAxis).                       *)
(***************************************************************************)
\* The text of each drift axis, sign character first.
AxisText ==
  [s \in DriftSign |->
    [k \in Coordinate |->
      CASE s = "Positive" /\ k = "X" -> "+X" [] s = "Positive" /\ k = "Y" -> "+Y"
        [] s = "Positive" /\ k = "Z" -> "+Z" [] s = "Negative" /\ k = "X" -> "-X"
        [] s = "Negative" /\ k = "Y" -> "-Y" [] s = "Negative" /\ k = "Z" -> "-Z"
        [] s = "Unknown" /\ k = "X" -> "?X"  [] s = "Unknown" /\ k = "Y" -> "?Y"
        [] s = "Unknown" /\ k = "Z" -> "?Z"]]

\* C25: a DriftAxis is written as the sign character ('+', '-', '?') followed by
\* the coordinate letter; two DriftAxis values are == exactly when coordinate
\* and sign are both equal, and != is the negation of ==.
C25_DriftAxisFormatAndEquality ==
  res.done =>
    /\ res.str = AxisText[a.sign][a.coordinate]
    /\ Len(res.str) = 2
    /\ res.eq = (a = b)
    /\ res.eq = (a.coordinate = b.coordinate /\ a.sign = b.sign)
    /\ res.ne = ~res.eq
    /\ res.eq = (DriftAxis_out(b) = res.str)

C25_Witness ==
  /\ res.done
  /\ a = [coordinate |-> "Z", sign |-> "Negative"]
  /\ b = [coordinate |-> "Z", sign |-> "Positive"]
  /\ res.str = "-Z"
  /\ res.ne /\ ~res.eq

(***************************************************************************)
(* Properties of invalid identifiers (specification SpecStr).              *)
(***************************************************************************)
\* The identifier with the indices of x and the opposite validity flag.
Flipped(x) == setValidity(x, ~x.isValid)

\* C26: toString() and getIndex<K>() depend on the indices only: an invalid
\* identifier gives what the valid identifier with the same indices gives, a
\* default-constructed one gives the sentinels ("C:4294967295 T:4294967295"
\* for TPCID, "C:4294967295 S:65535" for TPCsetID); every operation has a
\* result on an invalid identifier.
C26_InvalidIdentifiersAreOrdinaryValues ==
  res.done =>
    /\ res.str = toString(Flipped(id))
    /\ res.str = toString(markValid(id))
    /\ res.str = toString(markInvalid(id))
    /\ \A K \in Levels(id) :
         /\ getIndex(id, K) = getIndex(Flipped(id), K)
         /\ id = DefaultCtor(id.type) => getIndex(id, K) = InvalidID(AbsIDtype(K, id.type))
    /\ id = TPCID_default => res.str = "C:4294967295 T:4294967295"
    /\ id = TPCsetID_default => res.str = "C:4294967295 S:65535"
    /\ id = WireID_default =>
         res.str = "C:4294967295 T:4294967295 P:4294967295 W:4294967295"
    /\ Len(res.str) >= 3
    /\ {OperatorEq(id, Flipped(id)), OperatorNe(id, Flipped(id)),
        OperatorLt(id, Flipped(id)), OperatorBool(id), OperatorNot(id)} \subseteq BOOLEAN

C26_Witness ==
  /\ res.done
  /\ id = TPCsetID_default
  /\ ~id.isValid
  /\ res.str = "C:4294967295 S:65535"

(***************************************************************************)
(* Properties of TPCID::next() (specification SpecNext).                   *)
(***************************************************************************)
\* The TPCIDs of cryostat cr that could lie between two others.
TPCIDsOf(cr) == {TPCID_flat(cr, t) : t \in NextTPCVals \cup (0 .. (MaxNextCalls + 1))}

\* C27: t.next() is the valid TPCID with the cryostat index of t and the TPC
\* index (t.TPC + 1) mod 2^32, whatever the validity of t; below the sentinel
\* t < t.next() with no TPCID of that cryostat between them, n calls from TPC
\* index 0 give TPC index n, and at the sentinel next() wraps to TPC index 0,
\* so that t.next() < t.
C27_NextIsValidSuccessor ==
  op.name = "next" =>
    /\ id.type = "TPCID"
    /\ id.isValid = TRUE
    /\ id.Cryostat = a.Cryostat
    /\ CASE a.TPC = -1 -> id.TPC = 0
         [] a.TPC = 2147483647 -> id.TPC < 0 /\ UnsignedDecimal(id.TPC) = "2147483648"
         [] a.TPC = -2 -> id.TPC = -1 /\ id.TPC = InvalidID("TPCID")
         [] OTHER -> id.TPC = a.TPC + 1
    /\ a.TPC # InvalidID("TPCID") =>
         /\ OperatorLt(a, id)
         /\ ~OperatorLt(id, a)
         /\ \A x \in TPCIDsOf(a.Cryostat) : ~(OperatorLt(a, x) /\ OperatorLt(x, id))
    /\ a.TPC = InvalidID("TPCID") =>
         /\ id.TPC = 0
         /\ OperatorLt(id, a)
         /\ ~OperatorLt(a, id)
    /\ c.TPC = 0 => id.TPC = op.n
    /\ c \in {TPCID_nested(CryostatID_cv(0, TRUE), 0), TPCID_nested(parentID(c), 0)} =>
         id = TPCID_flat(c.Cryostat, op.n)
    /\ op.n = 1 => a = c

C27_Witness ==
  /\ op.name = "next"
  /\ op.n = 1
  /\ a = TPCID_default
  /\ ~a.isValid
  /\ id.isValid
  /\ id.TPC = 0
  /\ OperatorLt(id, a)

(***************************************************************************)
(* Properties of first() (specification Spec).                             *)
(***************************************************************************)
\* x lies under the ancestor: its indices down to the ancestor's level are the
\* ancestor's.
Under(x, ancestor) ==
  \A K \in Levels(ancestor) : getIndex(x, K) = getIndex(ancestor, K)

\* C28: first() is the valid identifier with index 0 at every level, the
\* minimum of its type; first(ancestor) has the ancestor's indices and validity
\* flag and index 0 at every level below, and is the smallest identifier of the
\* type under that ancestor.
C28_FirstIsMinimum ==
  /\ op.name = "first" =>
       /\ id.isValid = TRUE
       /\ \A K \in Levels(id) : getIndex(id, K) = 0
       /\ id = FlatCtor(id.type, [k \in 1 .. (Level(id.type) + 1) |-> 0])
       /\ \A x \in AllIDs(id.type) : ~OperatorLt(x, id)
  /\ op.name = "firstOf" =>
       /\ id.isValid = op.ancestor.isValid
       /\ Under(id, op.ancestor)
       /\ \A K \in Levels(id) \ Levels(op.ancestor) : getIndex(id, K) = 0
       /\ Level(id.type) > Level(op.ancestor.type)
       /\ \A x \in AllIDs(id.type) : Under(x, op.ancestor) => ~OperatorLt(x, id)

C28_Witness ==
  /\ op.name = "firstOf"
  /\ id.type = "WireID"
  /\ op.ancestor.type = "TPCID"
  /\ ~op.ancestor.isValid
  /\ ~id.isValid
  /\ id.Cryostat = 1 /\ id.TPC = 1 /\ id.Plane = 0 /\ id.Wire = 0

(***************************************************************************)
(* Properties of comparison across types (specification SpecMixed).        *)
(***************************************************************************)
\* C29: ==, != and < between identifiers of different types use the cryostat
\* index only, whatever the deeper indices: PlaneID(1,2,3) == TPCID(1,5) is
\* true and TPCID(1,9) < PlaneID(1,0,0) is false.
C29_MixedTypesCompareCryostatOnly ==
  /\ res.done =>
       /\ a.type # b.type
       /\ res.eq = (a.Cryostat = b.Cryostat)
       /\ res.ne = (a.Cryostat # b.Cryostat)
       /\ res.lt = UnsignedLess(a.Cryostat, b.Cryostat)
       /\ res.gt = UnsignedLess(b.Cryostat, a.Cryostat)
  /\ OperatorEq(PlaneID_flat(1, 2, 3), TPCID_flat(1, 5)) = TRUE
  /\ OperatorLt(TPCID_flat(1, 9), PlaneID_flat(1, 0, 0)) = FALSE
  /\ OperatorEq(TPCID_flat(1, 9), OpDetID_flat(1, 0)) = TRUE
  /\ OperatorNe(WireID_flat(1, 2, 3, 4), CryostatID_c(1)) = FALSE

C29_Witness ==
  /\ res.done
  /\ a.type = "PlaneID" /\ b.type = "TPCID"
  /\ a.Cryostat = 1 /\ b.Cryostat = 1
  /\ a.TPC = 0 /\ b.TPC = 1
  /\ res.eq /\ ~res.lt /\ ~res.gt /\ ~res.ne

====
